---------------------------- MODULE Spec2Model ----------------------------
(***************************************************************************)
(* Model of stock_replenishment_report.py: the header locator, the column  *)
(* resolver, the row extractor, the numeric coercer, the replenishment     *)
(* filter and the main() pipeline that drives them.                        *)
(*                                                                         *)
(* A cell text is a sequence of one-character strings, so that lowercasing,*)
(* stripping, whitespace collapsing, substring search and number parsing   *)
(* are computed character by character as the Python code computes them.   *)
(* Python's None is the cell value NoneCell.                               *)
(***************************************************************************)
EXTENDS Integers, Sequences, FiniteSets, TLC

-----------------------------------------------------------------------------
(* Bounds of the model *)

\* largest number of data rows that follow the header row in a grid
MaxBody == 2
\* largest number of cells in a header row passed to find_column_index
MaxHdr == 3
\* largest max_rows_to_check and grid length passed to find_header_row directly
MaxScan == 3

-----------------------------------------------------------------------------
(* Python values *)

NoneCell == <<"None">>

\* str(value)
PyStr(v) == IF v = NoneCell THEN <<"N","o","n","e">> ELSE v

\* bool(value) is False: None and the empty string
Falsy(v) == v = NoneCell \/ v = <<>>

UpperChars == <<"A","B","C","D","E","F","G","H","I","J","K","L","M",
                "N","O","P","Q","R","S","T","U","V","W","X","Y","Z">>
LowerChars == <<"a","b","c","d","e","f","g","h","i","j","k","l","m",
                "n","o","p","q","r","s","t","u","v","w","x","y","z">>

LowerChar(c) ==
    IF \E k \in 1..Len(UpperChars) : UpperChars[k] = c
    THEN LowerChars[CHOOSE k \in 1..Len(UpperChars) : UpperChars[k] = c]
    ELSE c

\* str.lower()
Lower(s) == [k \in 1..Len(s) |-> LowerChar(s[k])]

\* the characters Python's str.strip() and the regex class \s treat as space
IsSpace(c) == c \in {" ", "\t"}

\* str.strip()
Strip(s) ==
    IF \A k \in 1..Len(s) : IsSpace(s[k]) THEN <<>>
    ELSE LET first == CHOOSE a \in 1..Len(s) :
                          ~IsSpace(s[a]) /\ \A k \in 1..(a-1) : IsSpace(s[k])
             last  == CHOOSE b \in 1..Len(s) :
                          ~IsSpace(s[b]) /\ \A k \in (b+1)..Len(s) : IsSpace(s[k])
         IN  SubSeq(s, first, last)

\* re.sub(r'\s+', ' ', s): every run of whitespace becomes one blank
RECURSIVE CollapseSpaces(_)
CollapseSpaces(s) ==
    IF s = <<>> THEN <<>>
    ELSE IF IsSpace(Head(s))
         THEN IF Len(s) > 1 /\ IsSpace(s[2])
              THEN CollapseSpaces(Tail(s))
              ELSE <<" ">> \o CollapseSpaces(Tail(s))
         ELSE <<Head(s)>> \o CollapseSpaces(Tail(s))

\* str.replace(',', '')
RECURSIVE RemoveCommas(_)
RemoveCommas(s) ==
    IF s = <<>> THEN <<>>
    ELSE IF Head(s) = "," THEN RemoveCommas(Tail(s))
         ELSE <<Head(s)>> \o RemoveCommas(Tail(s))

\* sub in s
Contains(sub, s) ==
    \E k \in 0..(Len(s) - Len(sub)) : SubSeq(s, k + 1, k + Len(sub)) = sub

\* ' '.join(str(cell) for cell in row)
RECURSIVE JoinCells(_)
JoinCells(row) ==
    IF row = <<>> THEN <<>>
    ELSE IF Len(row) = 1 THEN PyStr(row[1])
         ELSE PyStr(row[1]) \o <<" ">> \o JoinCells(Tail(row))

normalize_text(text) ==
    IF Falsy(text) THEN <<>> ELSE CollapseSpaces(Strip(Lower(PyStr(text))))

-----------------------------------------------------------------------------
(* Numeric Coercer: safe_float *)

DigitChars == <<"0","1","2","3","4","5","6","7","8","9">>

IsDigit(c) == \E k \in 1..Len(DigitChars) : DigitChars[k] = c

DigitVal(c) == (CHOOSE k \in 1..Len(DigitChars) : DigitChars[k] = c) - 1

RECURSIVE DigitsValue(_)
DigitsValue(s) ==
    IF s = <<>> THEN 0
    ELSE DigitsValue(SubSeq(s, 1, Len(s) - 1)) * 10 + DigitVal(s[Len(s)])

RECURSIVE Pow10(_)
Pow10(n) == IF n = 0 THEN 1 ELSE 10 * Pow10(n - 1)

\* "no value": what safe_float returns as None
NoValue == [ok |-> FALSE, m |-> 0, f |-> 0]

\* float(s) on the decimal literals [+-]digits[.digits]: the number m / 10^f,
\* and ValueError (NoValue) on any other text over the model's characters.
\* Exponents, inf, nan and digit-group underscores are outside the cell texts
\* of the model.
PyFloat(s) ==
    LET signed == s # <<>> /\ s[1] \in {"+", "-"}
        body   == IF signed THEN Tail(s) ELSE s
        dots   == {k \in 1..Len(body) : body[k] = "."}
        ndig   == Cardinality({k \in 1..Len(body) : IsDigit(body[k])})
        wellformed == /\ \A k \in 1..Len(body) : IsDigit(body[k]) \/ body[k] = "."
                      /\ Cardinality(dots) <= 1
                      /\ ndig >= 1
        digits == SelectSeq(body, IsDigit)
        f      == IF dots = {} THEN 0
                  ELSE Len(body) - (CHOOSE k \in dots : TRUE)
        mag    == DigitsValue(digits)
    IN  IF ~wellformed THEN NoValue
        ELSE [ok |-> TRUE,
              m  |-> IF signed /\ s[1] = "-" THEN 0 - mag ELSE mag,
              f  |-> f]

safe_float_zero(value) ==
    IF value = NoneCell \/ value = <<>> THEN [ok |-> TRUE, m |-> 0, f |-> 0]
    ELSE LET r == PyFloat(Strip(RemoveCommas(PyStr(value))))
         IN  IF r.ok THEN r ELSE [ok |-> TRUE, m |-> 0, f |-> 0]

safe_float(value) ==
    IF value = NoneCell \/ value = <<>> THEN NoValue
    ELSE PyFloat(Strip(RemoveCommas(PyStr(value))))

\* a < b on two parsed numbers
FloatLess(a, b) == a.m * Pow10(b.f) < b.m * Pow10(a.f)

\* a == b on two parsed numbers
FloatEq(a, b) == a.m * Pow10(b.f) = b.m * Pow10(a.f)

-----------------------------------------------------------------------------
(* Cell texts of the model's grids *)

\* header titles
T_Sno == <<"S","n","o">>
T_UID == <<"U","I","D">>
T_Bush == <<"B","u","s","h">>
T_Group == <<"G","r","o","u","p">>
T_LastIO == <<"L","a","s","t"," ","I",".","O"," ","R","a","i","s","e","d">>
T_Category == <<"C","a","t","e","g","o","r","y">>
T_StockLoc == <<"S","t","o","c","k"," ","L","o","c","a","t","i","o","n">>
T_MinLvl == <<"M","i","n"," ","L","v","l">>
T_OpnBal == <<"O","p","n"," ","B","a","l">>
T_SnoDot == <<"S","n","o",".">>
T_OpnBalDot == <<"O","P","N","."," ","B","A","L">>
T_MinLvlSp == <<" "," ","M","I","N"," "," "," ","L","V","L"," ">>
T_ItemName == <<"I","t","e","m"," ","N","a","m","e">>
T_Item == <<"I","t","e","m">>
T_Name == <<"N","a","m","e">>
T_SubGroup == <<"S","u","b"," ","G","r","o","u","p">>
T_Remarks == <<"R","e","m","a","r","k","s">>
T_Title == <<"S","T","O","C","K"," ","S","H","E","E","T">>

\* data cells
D_1 == <<"1">>
D_2 == <<"2">>
D_A1 == <<"A","1">>
D_A2 == <<"A","2">>
D_B == <<"B">>
D_G1 == <<"G","1">>
D_Date == <<"2","0","2","4","-","0","1","-","0","1">>
D_C1 == <<"C","1">>
D_L1 == <<"L","1">>
D_10 == <<"1","0">>
D_9 == <<"9">>
D_5 == <<"5">>
D_20 == <<"2","0">>
D_1234 == <<"1",",","2","3","4">>
D_abc == <<"a","b","c">>
D_sp10 == <<" ","1","0"," ">>
D_9p5 == <<"9",".","5">>
D_10p0 == <<"1","0",".","0">>
D_blanks == <<" "," ">>

-----------------------------------------------------------------------------
(* Column Resolver: the catalog of find_all_columns *)

s_sno == <<"s","n","o">>
s_snodot == <<"s","n","o",".">>
s_uid == <<"u","i","d">>
s_bush == <<"b","u","s","h">>
s_group == <<"g","r","o","u","p">>
s_lastio1 == <<"l","a","s","t"," ","i","."," ","o","."," ","r","a","i","s","e","d">>
s_lastio2 == <<"l","a","s","t"," ","i",".","o"," ","r","a","i","s","e","d">>
s_lastio3 == <<"l","a","s","t"," ","i","o"," ","r","a","i","s","e","d">>
s_category == <<"c","a","t","e","g","o","r","y">>
s_stockloc == <<"s","t","o","c","k"," ","l","o","c","a","t","i","o","n">>
s_minlvl1 == <<"m","i","n"," ","l","v","l">>
s_minlvl2 == <<"m","i","n","."," ","l","v","l">>
s_minlvl3 == <<"m","i","n"," ","l","v">>
s_minlvl4 == <<"m","i","n","."," ","l","v">>
s_minlvl5 == <<"m","i","n","i","m","u","m"," ","l","e","v","e","l">>
s_opnbal1 == <<"o","p","n","."," ","b","a","l">>
s_opnbal2 == <<"o","p","n"," ","b","a","l">>
s_opnbal3 == <<"o","p","e","n","i","n","g"," ","b","a","l","a","n","c","e">>
s_itemname == <<"i","t","e","m"," ","n","a","m","e">>

\* the keys of column_definitions, in insertion (iteration) order
ColumnNames ==
    <<"sno", "uid", "bush", "group", "last_io_raised", "category",
      "stock_location", "min_lvl", "opn_bal">>

\* column_definitions, each list already flattened
column_definitions ==
    [sno            |-> <<s_sno, s_snodot>>,
     uid            |-> <<s_uid>>,
     bush           |-> <<s_bush>>,
     group          |-> <<s_group>>,
     last_io_raised |-> <<s_lastio1, s_lastio2, s_lastio3>>,
     category       |-> <<s_category>>,
     stock_location |-> <<s_stockloc>>,
     min_lvl        |-> <<s_minlvl1, s_minlvl2, s_minlvl3, s_minlvl4, s_minlvl5>>,
     opn_bal        |-> <<s_opnbal1, s_opnbal2, s_opnbal3>>]

\* the header cells and the search terms the model's inputs are drawn from
HeaderCells ==
    {T_Sno, T_UID, T_Bush, T_Group, T_LastIO, T_Category, T_StockLoc, T_MinLvl,
     T_OpnBal, T_SnoDot, T_OpnBalDot, T_MinLvlSp, T_ItemName, T_Item, T_Name,
     T_SubGroup, T_Remarks, T_Title, <<>>, NoneCell}

CatalogTerms ==
    UNION {{column_definitions[n][k] : k \in 1..Len(column_definitions[n])} :
           n \in {ColumnNames[j] : j \in 1..Len(ColumnNames)}}

ExtraTerms == {T_SubGroup, <<>>}

\* line 121: normalized_cell == normalized_term or normalized_term in normalized_cell
TermMatchesCell(cell, term) ==
    LET normalized_cell == normalize_text(cell)
        normalized_term == normalize_text(term)
    IN  normalized_cell = normalized_term \/ Contains(normalized_term, normalized_cell)

\* TermMatchesCell tabulated once over the model's header cells and terms
MatchTable ==
    [cell \in HeaderCells |->
        [term \in CatalogTerms \cup ExtraTerms |-> TermMatchesCell(cell, term)]]

Matches(cell, term) == MatchTable[cell][term]

\* the None that find_column_index returns
NoIndex == -1

\* the inner loop of find_column_index: does any term match this cell
RECURSIVE AnyTermMatches(_, _, _)
AnyTermMatches(cell, search_terms, t) ==
    IF t > Len(search_terms) THEN FALSE
    ELSE IF Matches(cell, search_terms[t]) THEN TRUE
         ELSE AnyTermMatches(cell, search_terms, t + 1)

\* the outer loop of find_column_index, from the cell of (0-based) index idx on
RECURSIVE ScanCells(_, _, _)
ScanCells(header_row, search_terms, idx) ==
    IF idx >= Len(header_row) THEN NoIndex
    ELSE IF AnyTermMatches(header_row[idx + 1], search_terms, 1) THEN idx
         ELSE ScanCells(header_row, search_terms, idx + 1)

\* a term-order-dominant resolver: the outer loop over terms, the inner over cells
RECURSIVE find_column_index_by_term(_, _)
find_column_index_by_term(header_row, search_terms) ==
    IF search_terms = <<>> THEN NoIndex
    ELSE LET hit == ScanCells(header_row, <<Head(search_terms)>>, 0)
         IN  IF hit # NoIndex THEN hit
             ELSE find_column_index_by_term(header_row, Tail(search_terms))

find_column_index(header_row, search_terms) ==
    ScanCells(header_row, search_terms, 0)

\* the loop of find_all_columns from the k-th catalog entry on; columns holds
\* the entries resolved so far
RECURSIVE ResolveFrom(_, _, _)
ResolveFrom(header_row, k, columns) ==
    IF k > Len(ColumnNames) THEN [raised |-> FALSE, columns |-> columns]
    ELSE LET col_name     == ColumnNames[k]
             search_terms == column_definitions[col_name]
             idx          == find_column_index(header_row, search_terms)
         IN  IF idx = NoIndex
             THEN [raised |-> TRUE, kind |-> "ValueError", column |-> col_name,
                   searched |-> search_terms, header |-> header_row]
             ELSE ResolveFrom(header_row, k + 1, columns @@ (col_name :> idx))

\* a resolver that trusts the catalog position of each column
find_all_columns_positional(header_row) ==
    IF Len(header_row) < Len(ColumnNames)
    THEN ResolveFrom(header_row, 1, <<>>)
    ELSE [raised |-> FALSE,
          columns |-> [n \in {ColumnNames[j] : j \in 1..Len(ColumnNames)} |->
                          (CHOOSE j \in 1..Len(ColumnNames) : ColumnNames[j] = n) - 1]]

\* a resolver that skips an unresolved column and reports the last one missing
RECURSIVE ResolveAllReportLast(_, _, _, _)
ResolveAllReportLast(header_row, k, columns, missing) ==
    IF k > Len(ColumnNames)
    THEN IF missing = ""
         THEN [raised |-> FALSE, columns |-> columns]
         ELSE [raised |-> TRUE, kind |-> "ValueError", column |-> missing,
               searched |-> column_definitions[missing], header |-> header_row]
    ELSE LET col_name == ColumnNames[k]
             idx      == find_column_index(header_row, column_definitions[col_name])
         IN  IF idx = NoIndex
             THEN ResolveAllReportLast(header_row, k + 1, columns, col_name)
             ELSE ResolveAllReportLast(header_row, k + 1,
                                       columns @@ (col_name :> idx), missing)

find_all_columns_report_last(header_row) ==
    ResolveAllReportLast(header_row, 1, <<>>, "")

find_all_columns(header_row) == ResolveFrom(header_row, 1, <<>>)

-----------------------------------------------------------------------------
(* The grids read_sheet_data may return in the model *)

\* the default of the parameter max_rows_to_check of find_header_row
max_rows_to_check_default == 10

\* the header of the spec's end-to-end scenario, in catalog order
CatalogHeader ==
    <<T_Sno, T_UID, T_Bush, T_Group, T_LastIO, T_Category, T_StockLoc,
      T_MinLvl, T_OpnBal>>

\* alternative spellings, and the two numeric columns in the other order
SwappedHeader ==
    <<T_SnoDot, T_UID, T_Bush, T_Group, T_LastIO, T_Category, T_StockLoc,
      T_OpnBalDot, T_MinLvlSp>>

\* no Bush column
HeaderNoBush ==
    <<T_Sno, T_UID, T_Remarks, T_Group, T_LastIO, T_Category, T_StockLoc,
      T_MinLvl, T_OpnBal>>

\* neither a Bush nor a Group column
HeaderNoBushGroup ==
    <<T_Sno, T_UID, T_Remarks, T_Remarks, T_LastIO, T_Category, T_StockLoc,
      T_MinLvl, T_OpnBal>>

\* a header recognised by "item name", without a UID column
HeaderItemName ==
    <<T_Sno, T_ItemName, T_Bush, T_Group, T_LastIO, T_Category, T_StockLoc,
      T_MinLvl, T_OpnBal>>

MainHeaders ==
    {CatalogHeader, SwappedHeader, HeaderNoBush, HeaderNoBushGroup, HeaderItemName}

Desc(sno, uid) == <<sno, uid, D_B, D_G1, D_Date, D_C1, D_L1>>

\* data rows; the last two cells are read as Min Lvl and Opn Bal under CatalogHeader
R_low      == Desc(D_1, D_A1) \o <<D_10, D_5>>
R_high     == Desc(D_2, D_A2) \o <<D_5, D_20>>
R_equal    == Desc(D_1, D_A2) \o <<D_10, D_10>>
R_nine     == Desc(D_2, D_A1) \o <<D_10, D_9>>
R_text     == Desc(D_1, D_A1) \o <<D_abc, D_9>>
R_emptyopn == Desc(D_2, D_A2) \o <<D_10, <<>>>>
R_nonemin  == Desc(D_1, D_A1) \o <<NoneCell, D_5>>
R_comma    == Desc(D_2, D_A2) \o <<D_1234, D_sp10>>
R_frac     == Desc(D_1, D_A1) \o <<D_10p0, D_9p5>>
R_eqfrac   == Desc(D_2, D_A2) \o <<D_10p0, D_10>>
R_spaces   == Desc(D_1, D_A2) \o <<D_blanks, D_5>>
R_short7   == Desc(D_2, D_A1)
R_short8   == Desc(D_1, D_A2) \o <<D_10>>
R_blank    == <<<<>>, NoneCell, <<>>>>

DataRows ==
    {R_low, R_high, R_equal, R_nine, R_text, R_emptyopn, R_nonemin, R_comma,
     R_frac, R_eqfrac, R_spaces, R_short7, R_short8, R_blank, <<>>}

\* the rows above the header: blank rows, title rows and stray data rows
PadRow(j) ==
    CASE j % 3 = 1 -> <<>>
      [] j % 3 = 2 -> <<T_Title>>
      [] OTHER     -> R_nine

Pad(n) == [j \in 1..n |-> PadRow(j)]

\* how many rows precede the header: none, one, and the two counts around the
\* scan bound
LeadCounts ==
    {0, 1, max_rows_to_check_default - 1, max_rows_to_check_default}

RECURSIVE SeqsUpTo(_, _)
SeqsUpTo(S, n) ==
    IF n = 0 THEN {<<>>}
    ELSE LET shorter == SeqsUpTo(S, n - 1)
         IN  shorter \cup {Append(s, x) : s \in {t \in shorter : Len(t) = n - 1}, x \in S}

Bodies == SeqsUpTo(DataRows, MaxBody)

\* every row that occurs in a grid of the model
GridRows == MainHeaders \cup DataRows \cup {PadRow(j) : j \in 1..3}

\* a grid: leading rows, at most one header row, the data rows
Grids ==
    {Pad(n) \o h \o b :
        n \in LeadCounts,
        h \in {<<>>} \cup {<<hr>> : hr \in MainHeaders},
        b \in Bodies}

-----------------------------------------------------------------------------
(* Header Locator: find_header_row *)

Min2(a, b) == IF a <= b THEN a ELSE b

\* line 139-140: the two substring conditions on the lowercased joined row
HeaderPredicate(row) ==
    LET row_text == Lower(JoinCells(row))
    IN  /\ Contains(s_sno, row_text)
        /\ (Contains(s_uid, row_text) \/ Contains(s_itemname, row_text))

\* HeaderPredicate tabulated once over the rows of the model's grids
HeaderTable == [row \in GridRows |-> HeaderPredicate(row)]

IsHeaderRow(row) ==
    IF row \in DOMAIN HeaderTable THEN HeaderTable[row] ELSE HeaderPredicate(row)

\* the loop of find_header_row from the row of (0-based) index i on
RECURSIVE ScanRows(_, _, _)
ScanRows(data, limit, i) ==
    IF i >= limit
    THEN [raised |-> TRUE, kind |-> "ValueError", idx |-> -1, row |-> <<>>]
    ELSE LET row == data[i + 1]
         IN  IF row = <<>> THEN ScanRows(data, limit, i + 1)
             ELSE IF IsHeaderRow(row)
                  THEN [raised |-> FALSE, kind |-> "", idx |-> i, row |-> row]
                  ELSE ScanRows(data, limit, i + 1)

\* a locator that ignores the scan bound and looks at every row of the grid
find_header_row_unbounded(data, max_rows_to_check) ==
    ScanRows(data, Len(data), 0)

\* a locator that keeps scanning and returns the last qualifying row
RECURSIVE ScanRowsLast(_, _, _, _)
ScanRowsLast(data, limit, i, best) ==
    IF i >= limit THEN best
    ELSE LET row == data[i + 1]
         IN  IF row # <<>> /\ IsHeaderRow(row)
             THEN ScanRowsLast(data, limit, i + 1,
                               [raised |-> FALSE, kind |-> "", idx |-> i, row |-> row])
             ELSE ScanRowsLast(data, limit, i + 1, best)

find_header_row_last(data, max_rows_to_check) ==
    ScanRowsLast(data, Min2(max_rows_to_check, Len(data)), 0,
                 [raised |-> TRUE, kind |-> "ValueError", idx |-> -1, row |-> <<>>])

find_header_row(data, max_rows_to_check) ==
    ScanRows(data, Min2(max_rows_to_check, Len(data)), 0)

-----------------------------------------------------------------------------
(* Row Extractor and Replenishment Filter *)

\* get_cell of extract_row_data
get_cell(row, idx) == IF idx < Len(row) THEN row[idx + 1] ELSE <<>>

extract_row_data(row, columns) ==
    [n \in DOMAIN columns |-> get_cell(row, columns[n])]

\* line 228: not row or all(not cell for cell in row)
IsBlankRow(row) == row = <<>> \/ \A k \in 1..Len(row) : Falsy(row[k])

\* lines 245-253: the item built from a row's data
MakeItem(row_data) ==
    [k \in {"Sno.", "UID", "Bush", "Group", "Last I.O Raised", "Category",
            "Stock Location"} |->
        CASE k = "Sno."            -> row_data["sno"]
          [] k = "UID"             -> row_data["uid"]
          [] k = "Bush"            -> row_data["bush"]
          [] k = "Group"           -> row_data["group"]
          [] k = "Last I.O Raised" -> row_data["last_io_raised"]
          [] k = "Category"        -> row_data["category"]
          [] k = "Stock Location"  -> row_data["stock_location"]]

\* line 243 with <= for <
BelowMinimumOrEqual(opn_bal, min_lvl) ==
    FloatLess(opn_bal, min_lvl) \/ FloatEq(opn_bal, min_lvl)

\* line 243: opn_bal < min_lvl
BelowMinimum(opn_bal, min_lvl) == FloatLess(opn_bal, min_lvl)

\* safe_float tabulated once over the cells of the model's data rows
FloatTable ==
    [cell \in UNION {{row[k] : k \in 1..Len(row)} : row \in GridRows} |->
        safe_float(cell)]

CoerceCell(cell) ==
    IF cell \in DOMAIN FloatTable THEN FloatTable[cell] ELSE safe_float(cell)

\* one pass of the loop body of filter_replenishment_items (lines 225-254):
\* the list of items after the row was handled
FilterRowResult(row, columns, items) ==
    IF IsBlankRow(row) THEN items
    ELSE LET row_data == extract_row_data(row, columns)
             opn_bal  == CoerceCell(row_data["opn_bal"])
             min_lvl  == CoerceCell(row_data["min_lvl"])
         IN  IF ~opn_bal.ok \/ ~min_lvl.ok THEN items
             ELSE IF BelowMinimum(opn_bal, min_lvl)
                  THEN Append(items, MakeItem(row_data))
                  ELSE items

-----------------------------------------------------------------------------
(* State *)

VARIABLES
    pc,                  \* the step main() is about to run
    data,                \* the grid read_sheet_data returned
    header_row_idx,      \* main's header_row_idx (0-based), -1 before it is set
    header_row,          \* main's header_row
    columns,             \* main's columns: logical column name -> index
    i,                   \* the loop index of filter_replenishment_items
    replenishment_items, \* the list filter_replenishment_items builds
    shown,               \* what display_results printed
    csv_file,            \* the export file OUTPUT_CSV
    err,                 \* the exception main() caught
    rc,                  \* main's return value, -1 while it runs
    call                 \* a direct call of one core function and its result

vars ==
    <<pc, data, header_row_idx, header_row, columns, i, replenishment_items,
      shown, csv_file, err, rc, call>>

mainvars ==
    <<pc, data, header_row_idx, header_row, columns, i, replenishment_items,
      shown, csv_file, err, rc>>

NoError == [kind |-> "", site |-> "", column |-> ""]
NotShown == [called |-> FALSE, items |-> <<>>]
NoFile == [state |-> "absent", opens |-> 0, header |-> <<>>, rows |-> <<>>]
NoCall == [fn |-> "none", done |-> TRUE]

CsvHeaders ==
    <<"Sno.", "UID", "Bush", "Group", "Last I.O Raised", "Category", "Stock Location">>

MainInit ==
    /\ pc = "load_credentials"
    /\ data = <<>>
    /\ header_row_idx = -1
    /\ header_row = <<>>
    /\ columns = <<>>
    /\ i = 0
    /\ replenishment_items = <<>>
    /\ shown = NotShown
    /\ csv_file = NoFile
    /\ err = NoError
    /\ rc = -1

Init == MainInit /\ call = NoCall

\* main's except clauses (lines 362-378): every exception ends the run with 1
Fail(kind, site, column) ==
    /\ err' = [kind |-> kind, site |-> site, column |-> column]
    /\ rc' = 1
    /\ pc' = "done"

-----------------------------------------------------------------------------
(* main(): one action per step of the pipeline *)

\* the exceptions of load_credentials: the file is missing (line 40), the
\* file cannot be loaded (line 52)
load_credentials_raises == {"FileNotFoundError", "ValueError"}

\* the exception of create_sheets_service (line 63)
create_sheets_service_raises == {"RuntimeError"}

\* the exceptions of read_sheet_data: sheet or range not found (line 81),
\* permission denied (line 83), any other failure (lines 89, 91)
read_sheet_data_raises == {"ValueError", "PermissionError", "RuntimeError"}

\* step 1, load_credentials: the file is missing (FileNotFoundError), cannot
\* be loaded (ValueError), or is loaded
LoadCredentials ==
    /\ pc = "load_credentials"
    /\ \/ pc' = "create_sheets_service" /\ UNCHANGED <<err, rc>>
       \/ \E kind \in load_credentials_raises : Fail(kind, "load_credentials", "")
    /\ UNCHANGED <<data, header_row_idx, header_row, columns, i,
                   replenishment_items, shown, csv_file, call>>

\* step 2, create_sheets_service: built, or RuntimeError
CreateSheetsService ==
    /\ pc = "create_sheets_service"
    /\ \/ pc' = "read_sheet_data" /\ UNCHANGED <<err, rc>>
       \/ \E kind \in create_sheets_service_raises :
            Fail(kind, "create_sheets_service", "")
    /\ UNCHANGED <<data, header_row_idx, header_row, columns, i,
                   replenishment_items, shown, csv_file, call>>

\* step 3, read_sheet_data: a grid, or 404 (ValueError), 403 (PermissionError),
\* any other failure (RuntimeError)
ReadSheetData ==
    /\ pc = "read_sheet_data"
    /\ \/ \E grid \in Grids :
            /\ data' = grid
            /\ pc' = "find_header_row"
            /\ UNCHANGED <<err, rc>>
       \/ \E kind \in read_sheet_data_raises :
            /\ Fail(kind, "read_sheet_data", "")
            /\ UNCHANGED data
    /\ UNCHANGED <<header_row_idx, header_row, columns, i,
                   replenishment_items, shown, csv_file, call>>

\* a main() that goes on to the display after the header was not found
FindHeaderRowStepGoesOn ==
    /\ pc = "find_header_row"
    /\ LET r == find_header_row(data, max_rows_to_check_default)
       IN  IF r.raised
           THEN /\ err' = [kind |-> r.kind, site |-> "find_header_row", column |-> ""]
                /\ pc' = "display_results"
                /\ UNCHANGED <<header_row_idx, header_row, rc>>
           ELSE /\ header_row_idx' = r.idx
                /\ header_row' = r.row
                /\ pc' = "find_all_columns"
                /\ UNCHANGED <<err, rc>>
    /\ UNCHANGED <<data, columns, i, replenishment_items, shown, csv_file, call>>

\* step 4 (line 333): find_header_row(data) with the default bound
FindHeaderRowStep ==
    /\ pc = "find_header_row"
    /\ LET r == find_header_row(data, max_rows_to_check_default)
       IN  IF r.raised
           THEN /\ Fail(r.kind, "find_header_row", "")
                /\ UNCHANGED <<header_row_idx, header_row>>
           ELSE /\ header_row_idx' = r.idx
                /\ header_row' = r.row
                /\ pc' = "find_all_columns"
                /\ UNCHANGED <<err, rc>>
    /\ UNCHANGED <<data, columns, i, replenishment_items, shown, csv_file, call>>

\* a filter whose loop starts at the first row of the grid, not after the header
FindAllColumnsStepFromTop ==
    /\ pc = "find_all_columns"
    /\ LET r == find_all_columns(header_row)
       IN  IF r.raised
           THEN /\ Fail(r.kind, "find_all_columns", r.column)
                /\ UNCHANGED <<columns, i>>
           ELSE /\ columns' = r.columns
                /\ i' = 0
                /\ pc' = "filter_replenishment_items"
                /\ UNCHANGED <<err, rc>>
    /\ UNCHANGED <<data, header_row_idx, header_row, replenishment_items, shown,
                   csv_file, call>>

\* step 5 (line 338): find_all_columns(header_row); on success main enters
\* filter_replenishment_items, whose loop starts at header_row_idx + 1
FindAllColumnsStep ==
    /\ pc = "find_all_columns"
    /\ LET r == find_all_columns(header_row)
       IN  IF r.raised
           THEN /\ Fail(r.kind, "find_all_columns", r.column)
                /\ UNCHANGED <<columns, i>>
           ELSE /\ columns' = r.columns
                /\ i' = header_row_idx + 1
                /\ pc' = "filter_replenishment_items"
                /\ UNCHANGED <<err, rc>>
    /\ UNCHANGED <<data, header_row_idx, header_row, replenishment_items, shown,
                   csv_file, call>>

\* step 6, one iteration of the loop of filter_replenishment_items (line 224)
FilterRow ==
    /\ pc = "filter_replenishment_items"
    /\ i < Len(data)
    /\ replenishment_items' = FilterRowResult(data[i + 1], columns, replenishment_items)
    /\ i' = i + 1
    /\ UNCHANGED <<pc, data, header_row_idx, header_row, columns, shown, csv_file,
                   err, rc, call>>

\* step 6, the end of the loop: filter_replenishment_items returns (line 256)
FilterReturn ==
    /\ pc = "filter_replenishment_items"
    /\ i >= Len(data)
    /\ pc' = "display_results"
    /\ UNCHANGED <<data, header_row_idx, header_row, columns, i,
                   replenishment_items, shown, csv_file, err, rc, call>>

\* step 7, display_results: prints the table, or the "no items" notice
DisplayResults ==
    /\ pc = "display_results"
    /\ shown' = [called |-> TRUE, items |-> replenishment_items]
    /\ pc' = "save_to_csv"
    /\ UNCHANGED <<data, header_row_idx, header_row, columns, i,
                   replenishment_items, csv_file, err, rc, call>>

\* a save_to_csv without the guard of line 294: it opens the file and writes
\* the header line whatever the list holds
SaveToCsvUnguarded ==
    /\ pc = "save_to_csv"
    /\ csv_file' = [state |-> "complete", opens |-> csv_file.opens + 1,
                    header |-> CsvHeaders, rows |-> replenishment_items]
    /\ rc' = 0
    /\ pc' = "done"
    /\ UNCHANGED <<data, header_row_idx, header_row, columns, i,
                   replenishment_items, shown, err, call>>

\* step 8, save_to_csv (lines 292-307), then main returns 0; a failure to open
\* or to write the file is a RuntimeError. An empty list returns before open().
SaveToCsv ==
    /\ pc = "save_to_csv"
    /\ IF replenishment_items = <<>>
       THEN /\ rc' = 0
            /\ pc' = "done"
            /\ UNCHANGED <<csv_file, err>>
       ELSE \/ /\ csv_file' = [state |-> "complete", opens |-> csv_file.opens + 1,
                               header |-> CsvHeaders, rows |-> replenishment_items]
               /\ rc' = 0
               /\ pc' = "done"
               /\ UNCHANGED err
            \/ /\ csv_file' = csv_file
               /\ Fail("RuntimeError", "save_to_csv", "")
            \/ /\ csv_file' = [state |-> "partial", opens |-> csv_file.opens + 1,
                               header |-> <<>>, rows |-> <<>>]
               /\ Fail("RuntimeError", "save_to_csv", "")
    /\ UNCHANGED <<data, header_row_idx, header_row, columns, i,
                   replenishment_items, shown, call>>

Next ==
    \/ LoadCredentials
    \/ CreateSheetsService
    \/ ReadSheetData
    \/ FindHeaderRowStep
    \/ FindAllColumnsStep
    \/ FilterRow
    \/ FilterReturn
    \/ DisplayResults
    \/ SaveToCsv

Spec == Init /\ [][Next]_vars

-----------------------------------------------------------------------------
(* Direct calls of the core functions, on inputs drawn from bounded sets *)

\* rows of the header-locator inputs: blank, title, header by "uid", header by
\* "item name" in one cell and across two cells, rows with one marker only, a
\* data row
LocatorRows ==
    {<<>>, <<T_Title>>, <<T_Sno, T_UID>>, <<T_SnoDot, T_ItemName>>,
     <<T_Sno, T_Item, T_Name>>, <<T_UID, T_Group>>, <<T_Sno, T_Group>>, R_nine}

LocatorCalls ==
    {[fn |-> "find_header_row", done |-> FALSE, data |-> g,
      max_rows_to_check |-> m, result |-> [raised |-> FALSE]] :
        g \in SeqsUpTo(LocatorRows, MaxScan), m \in 0..MaxScan}

\* cells and terms of the find_column_index inputs
ResolverCells == {T_Sno, T_UID, T_SubGroup, T_Group, T_MinLvlSp, <<>>, NoneCell}

ResolverTerms == {s_sno, s_uid, s_group, s_minlvl1, T_SubGroup, <<>>}

ColumnIndexCalls ==
    {[fn |-> "find_column_index", done |-> FALSE, header_row |-> h,
      search_terms |-> ts, result |-> NoIndex] :
        h \in SeqsUpTo(ResolverCells, MaxHdr), ts \in SeqsUpTo(ResolverTerms, 2)}

\* the catalog header with the cells outside keep replaced by a foreign title
MaskedHeader(keep) ==
    [k \in 1..Len(CatalogHeader) |->
        IF k \in keep THEN CatalogHeader[k] ELSE T_Remarks]

AllColumnsCalls ==
    {[fn |-> "find_all_columns", done |-> FALSE, header_row |-> h,
      result |-> [raised |-> FALSE]] :
        h \in {MaskedHeader(keep) : keep \in SUBSET (1..Len(CatalogHeader))}
              \cup MainHeaders}

\* the cells of base in every order
PermutedCalls(base) ==
    {[fn |-> "find_all_columns", done |-> FALSE,
      header_row |-> [k \in 1..Len(base) |-> base[p[k]]],
      result |-> [raised |-> FALSE]] :
        p \in Permutations(1..Len(base))}

CallFindHeaderRow ==
    /\ call.fn = "find_header_row"
    /\ ~call.done
    /\ call' = [call EXCEPT !.done = TRUE,
                            !.result = find_header_row(call.data, call.max_rows_to_check)]
    /\ UNCHANGED mainvars

CallFindColumnIndex ==
    /\ call.fn = "find_column_index"
    /\ ~call.done
    /\ call' = [call EXCEPT !.done = TRUE,
                            !.result = find_column_index(call.header_row, call.search_terms)]
    /\ UNCHANGED mainvars

CallFindAllColumns ==
    /\ call.fn = "find_all_columns"
    /\ ~call.done
    /\ call' = [call EXCEPT !.done = TRUE,
                            !.result = find_all_columns(call.header_row)]
    /\ UNCHANGED mainvars

InitLocator == MainInit /\ call \in LocatorCalls
NextLocator == CallFindHeaderRow
SpecLocator == InitLocator /\ [][NextLocator]_vars

InitResolver == MainInit /\ call \in ColumnIndexCalls \cup AllColumnsCalls
NextResolver == CallFindColumnIndex \/ CallFindAllColumns
SpecResolver == InitResolver /\ [][NextResolver]_vars

InitPermuted == MainInit /\ call \in PermutedCalls(CatalogHeader)
NextPermuted == CallFindAllColumns
SpecPermuted == InitPermuted /\ [][NextPermuted]_vars

-----------------------------------------------------------------------------
(* Properties *)

AllColumnNames == {ColumnNames[j] : j \in 1..Len(ColumnNames)}

\* the cell the extractor reads for a logical column of the run's column map
CellOf(row, col_name) ==
    IF columns[col_name] < Len(row) THEN row[columns[col_name] + 1] ELSE <<>>

\* the number a cell text denotes once blanks and commas are removed
NumberTable ==
    [cell \in UNION {{row[k] : k \in 1..Len(row)} : row \in GridRows} |->
        PyFloat(Strip(RemoveCommas(PyStr(cell))))]

NumberOf(cell) ==
    IF cell \in DOMAIN NumberTable THEN NumberTable[cell]
    ELSE PyFloat(Strip(RemoveCommas(PyStr(cell))))

\* "no value": None, empty, or a text that is no number
IsNoValue(cell) == cell = NoneCell \/ cell = <<>> \/ ~NumberOf(cell).ok

ItemOf(row) ==
    [k \in {CsvHeaders[j] : j \in 1..Len(CsvHeaders)} |->
        CASE k = "Sno."            -> CellOf(row, "sno")
          [] k = "UID"             -> CellOf(row, "uid")
          [] k = "Bush"            -> CellOf(row, "bush")
          [] k = "Group"           -> CellOf(row, "group")
          [] k = "Last I.O Raised" -> CellOf(row, "last_io_raised")
          [] k = "Category"        -> CellOf(row, "category")
          [] k = "Stock Location"  -> CellOf(row, "stock_location")]

\* the step is one iteration of the filter loop, on the row of index i
FilterIteration ==
    /\ pc = "filter_replenishment_items"
    /\ pc' = "filter_replenishment_items"
    /\ i < Len(data)
    /\ i' = i + 1

\* C1: a row after the header that is not blank and whose opening balance and
\* minimum level both parse is appended to the output if and only if
\* opening balance < minimum level, strictly; equal values are left out.
C1_StrictlyBelowMinimum ==
    [][FilterIteration =>
        LET row == data[i + 1]
            opn == CellOf(row, "opn_bal")
            min == CellOf(row, "min_lvl")
        IN  (~IsBlankRow(row) /\ ~IsNoValue(opn) /\ ~IsNoValue(min)) =>
                IF FloatLess(NumberOf(opn), NumberOf(min))
                THEN replenishment_items' = Append(replenishment_items, ItemOf(row))
                ELSE replenishment_items' = replenishment_items]_vars

\* C1 witness: under the catalog header a row with 10 and 10 was left out and
\* the row with balance 9 and minimum 10 after it was taken.
C1_Witness ==
    /\ pc = "filter_replenishment_items"
    /\ header_row = CatalogHeader
    /\ i = Len(data)
    /\ i = header_row_idx + 3
    /\ data[i - 1] = R_equal
    /\ data[i] = R_nine
    /\ replenishment_items = <<ItemOf(R_nine)>>

\* the rows within the scan bound that satisfy the header predicate
QualifyingRows(grid, bound) ==
    {j \in 0..(Min2(bound, Len(grid)) - 1) : IsHeaderRow(grid[j + 1])}

\* C2: when some row below min(max_rows_to_check, len(data)) satisfies the
\* header predicate, find_header_row returns the lowest such index and that row.
C2_LowestHeaderIndex ==
    (call.fn = "find_header_row" /\ call.done) =>
        LET q == QualifyingRows(call.data, call.max_rows_to_check)
        IN  q # {} =>
              /\ ~call.result.raised
              /\ call.result.idx \in q
              /\ \A j \in q : call.result.idx <= j
              /\ call.result.row = call.data[call.result.idx + 1]

\* C2 witness: two rows within the bound qualify and the first one is returned.
C2_Witness ==
    /\ call.fn = "find_header_row"
    /\ call.done
    /\ call.max_rows_to_check = 3
    /\ call.data = << <<T_Title>>, <<T_Sno, T_UID>>, <<T_SnoDot, T_ItemName>> >>
    /\ call.result.idx = 1

\* the (0-based) indices of the cells that match some term of the list
MatchingCells(header, terms) ==
    {idx \in 0..(Len(header) - 1) :
        \E t \in 1..Len(terms) : Matches(header[idx + 1], terms[t])}

\* C3: find_column_index returns the lowest index of a cell whose normalized
\* text equals or contains any normalized term, whatever the term's position
\* in the list, and None when no cell matches.
C3_CellOrderDominant ==
    (call.fn = "find_column_index" /\ call.done) =>
        LET hits == MatchingCells(call.header_row, call.search_terms)
        IN  IF hits = {} THEN call.result = NoIndex
            ELSE /\ call.result \in hits
                 /\ \A j \in hits : call.result <= j

\* C3 witness: the first cell matches only the later-listed term, the second
\* cell matches the earlier-listed term, and the first cell wins.
C3_Witness ==
    /\ call.fn = "find_column_index"
    /\ call.done
    /\ call.header_row = <<T_UID, T_Sno>>
    /\ call.search_terms = <<s_sno, s_uid>>
    /\ call.result = 0

\* the logical columns none of whose terms matches any cell of the header
MissingColumns(header) ==
    {n \in AllColumnNames :
        MatchingCells(header, column_definitions[n]) = {}}

FirstMissing(header) ==
    ColumnNames[CHOOSE j \in 1..Len(ColumnNames) :
                    /\ ColumnNames[j] \in MissingColumns(header)
                    /\ \A k \in 1..(j - 1) : ColumnNames[k] \notin MissingColumns(header)]

\* C4 as stated: for every logical column without a match, find_all_columns
\* fails naming exactly that column, also when several columns have no match.
C4_NamesEachMissingColumn ==
    (call.fn = "find_all_columns" /\ call.done) =>
        \A n \in MissingColumns(call.header_row) :
            call.result.raised /\ call.result.column = n

\* C4 as amended: when some logical column has no match, find_all_columns
\* fails, returns no map, and names the first unmatched column in catalog
\* order (the only unmatched column, when there is just one).
C4_NamesFirstMissingColumn ==
    (call.fn = "find_all_columns" /\ call.done
        /\ MissingColumns(call.header_row) # {}) =>
            /\ call.result.raised
            /\ "columns" \notin DOMAIN call.result
            /\ call.result.column = FirstMissing(call.header_row)
            /\ call.result.searched = column_definitions[call.result.column]
            /\ call.result.header = call.header_row

\* C4 witness: Bush and Group are both unmatched and Bush is the one named.
C4_Witness ==
    /\ call.fn = "find_all_columns"
    /\ call.done
    /\ MissingColumns(call.header_row) = {"bush", "group"}
    /\ call.result.raised
    /\ call.result.column = "bush"

\* the title each logical column carries in the catalog header
TitleOf ==
    [n \in AllColumnNames |->
        CatalogHeader[CHOOSE j \in 1..Len(ColumnNames) : ColumnNames[j] = n]]

\* C5: for every order of the nine titles, find_all_columns maps each logical
\* column to the index of the cell that carries its title.
C5_OrderIndependent ==
    (call.fn = "find_all_columns" /\ call.done) =>
        /\ ~call.result.raised
        /\ DOMAIN call.result.columns = AllColumnNames
        /\ \A n \in AllColumnNames :
              call.header_row[call.result.columns[n] + 1] = TitleOf[n]

\* C5 witness: the header is the catalog header reversed and was resolved.
C5_Witness ==
    /\ call.fn = "find_all_columns"
    /\ call.done
    /\ call.header_row = [k \in 1..Len(CatalogHeader) |->
                             CatalogHeader[Len(CatalogHeader) + 1 - k]]
    /\ call.result.columns["sno"] = 8
    /\ call.result.columns["opn_bal"] = 0

\* find_header_row has run in this state: main is past step 4
HeaderStepRan ==
    \/ pc \in {"find_all_columns", "filter_replenishment_items",
               "display_results", "save_to_csv"}
    \/ pc = "done" /\ err.site \notin {"load_credentials", "create_sheets_service",
                                       "read_sheet_data"}

\* C6: when no row below min(10, len(data)) satisfies the header predicate,
\* find_header_row raises its not-found error, also when a qualifying row sits
\* at index 10 or beyond and when the grid is empty, and main ends with 1
\* without resolving, filtering, displaying or exporting anything.
C6_NotFoundIsFatal ==
    (HeaderStepRan /\ QualifyingRows(data, max_rows_to_check_default) = {}) =>
        /\ pc = "done"
        /\ err = [kind |-> "ValueError", site |-> "find_header_row", column |-> ""]
        /\ rc = 1
        /\ header_row_idx = -1
        /\ columns = <<>>
        /\ replenishment_items = <<>>
        /\ ~shown.called
        /\ csv_file = NoFile

\* C6 witness: the run failed in find_header_row although the row of index 10
\* satisfies the header predicate.
C6_Witness ==
    /\ pc = "done"
    /\ err.site = "find_header_row"
    /\ rc = 1
    /\ Len(data) > max_rows_to_check_default
    /\ HeaderPredicate(data[max_rows_to_check_default + 1])

\* C7: a row after the header whose opening balance or minimum level is "no
\* value" (None, empty, no number, or beyond the end of a short row) is
\* skipped: nothing is appended, no error is raised, and the loop goes on to
\* the next row; the loop is left only when every row was handled.
C7_NoValueRowsSkipped ==
    [][/\ FilterIteration =>
            LET row == data[i + 1]
            IN  (IsNoValue(CellOf(row, "opn_bal")) \/ IsNoValue(CellOf(row, "min_lvl"))) =>
                    /\ replenishment_items' = replenishment_items
                    /\ err' = NoError
                    /\ rc' = -1
       /\ (pc = "filter_replenishment_items" /\ pc' # pc) =>
            /\ pc' = "display_results"
            /\ i >= Len(data)
            /\ err' = NoError]_vars

\* C7 witness: a short row without an opening-balance cell and a row with a
\* text for a minimum were skipped, and the row after them was taken.
C7_Witness ==
    /\ pc = "filter_replenishment_items"
    /\ header_row = CatalogHeader
    /\ i = Len(data)
    /\ i >= header_row_idx + 3
    /\ data[i - 1] \in {R_short8, R_text}
    /\ data[i] = R_low
    /\ replenishment_items = <<ItemOf(R_low)>>
    /\ err = NoError

\* the filter has run over the whole grid in this state
FilterCompleted ==
    /\ header_row_idx >= 0
    /\ header_row = data[header_row_idx + 1]
    /\ DOMAIN columns = AllColumnNames
    /\ i >= Len(data)

\* C8: after find_header_row or find_all_columns failed, nothing was displayed,
\* no export file was touched and main returned 1; display and export are
\* reached only after the header was located, all nine columns were resolved
\* and the filter ran over the whole grid.
C8_NoPartialOutput ==
    /\ err.site \in {"find_header_row", "find_all_columns"} =>
          /\ pc = "done"
          /\ rc = 1
          /\ ~shown.called
          /\ csv_file = NoFile
          /\ replenishment_items = <<>>
    /\ (pc \in {"display_results", "save_to_csv"} \/ shown.called \/ csv_file # NoFile) =>
          /\ FilterCompleted
          /\ err.site \in {"", "save_to_csv"}
    /\ csv_file # NoFile => shown.called

\* C8 witness: the header was found, a column could not be resolved, and the
\* run ended with 1 and no output.
C8_Witness ==
    /\ pc = "done"
    /\ err.site = "find_all_columns"
    /\ err.column = "bush"
    /\ header_row_idx >= 0
    /\ Len(data) > header_row_idx + 1
    /\ rc = 1
    /\ ~shown.called
    /\ csv_file = NoFile

\* the rows after the header that are not blank, parse, and are below minimum
RowSelected(row) ==
    /\ ~IsBlankRow(row)
    /\ ~IsNoValue(CellOf(row, "opn_bal"))
    /\ ~IsNoValue(CellOf(row, "min_lvl"))
    /\ FloatLess(NumberOf(CellOf(row, "opn_bal")), NumberOf(CellOf(row, "min_lvl")))

SelectedRows ==
    {j \in (header_row_idx + 1)..(Len(data) - 1) : RowSelected(data[j + 1])}

\* C9: when no row of the grid qualifies, the filter returns the empty list,
\* save_to_csv neither opens nor writes the export file and raises nothing,
\* and main returns 0.
C9_EmptyExportIsNoOp ==
    /\ (pc \in {"display_results", "save_to_csv"} /\ SelectedRows = {}) =>
          replenishment_items = <<>>
    /\ (pc = "done" /\ shown.called /\ SelectedRows = {}) =>
          /\ replenishment_items = <<>>
          /\ shown.items = <<>>
          /\ csv_file = NoFile
          /\ err = NoError
          /\ rc = 0

\* C9 witness: a grid with data rows, none of them qualifying, ran to the end:
\* the empty list was displayed, no file exists and main returned 0.
C9_Witness ==
    /\ pc = "done"
    /\ shown.called
    /\ Len(data) > header_row_idx + 1
    /\ data[Len(data)] = R_equal
    /\ SelectedRows = {}
    /\ csv_file.opens = 0
    /\ rc = 0

\* the kinds of the two taxonomy failures, as the core functions raise them
NotFoundKind == find_header_row(<<>>, max_rows_to_check_default).kind
MissingColumnKind == find_all_columns(<<>>).kind

\* C10: the failure of find_header_row and the failure of find_all_columns
\* differ in kind from each other and from the failures of load_credentials
\* and of read_sheet_data, so that the caller can tell them apart by kind.
C10_DistinguishableKinds ==
    /\ err.site = "find_header_row" =>
          err.kind \notin {MissingColumnKind} \cup load_credentials_raises
                          \cup read_sheet_data_raises
    /\ err.site = "find_all_columns" =>
          err.kind \notin {NotFoundKind} \cup load_credentials_raises
                          \cup read_sheet_data_raises

\* the filter loop is running or has run in this state
FilterEntered ==
    \/ pc \in {"filter_replenishment_items", "display_results", "save_to_csv"}
    \/ pc = "done" /\ err.site \in {"", "save_to_csv"}

\* the items of the selected rows of index below n, in ascending row order
RECURSIVE SelectedItemsBelow(_)
SelectedItemsBelow(n) ==
    IF n <= header_row_idx + 1 THEN <<>>
    ELSE LET before == SelectedItemsBelow(n - 1)
         IN  IF RowSelected(data[n])
             THEN Append(before, ItemOf(data[n]))
             ELSE before

\* C11: the output is an order-preserving subsequence of the rows strictly
\* after the header: while and after the filter runs, the list holds one item
\* for each selected row of index above header_row_idx that the loop has
\* passed, in ascending row order, and nothing else; the header row and the
\* rows before it contribute no item, and each step adds at most one item.
C11_OrderedSubsequenceAfterHeader ==
    FilterEntered =>
        /\ i > header_row_idx
        /\ i <= Len(data)
        /\ replenishment_items = SelectedItemsBelow(i)
        /\ Len(replenishment_items) <= i - (header_row_idx + 1)
        /\ \E src \in [1..Len(replenishment_items) -> (header_row_idx + 1)..(i - 1)] :
              /\ \A k \in 1..Len(replenishment_items) :
                    replenishment_items[k] = ItemOf(data[src[k] + 1])
              /\ \A k \in 1..(Len(replenishment_items) - 1) : src[k] < src[k + 1]

\* C11 witness: the header sits at index 9 below a stray row with balance 9
\* and minimum 10; the two rows after the header were taken in their order and
\* the stray row gave no item.
C11_Witness ==
    /\ pc = "display_results"
    /\ header_row = CatalogHeader
    /\ header_row_idx = 9
    /\ data[3] = R_nine
    /\ Len(data) = 12
    /\ data[11] = R_nine
    /\ data[12] = R_low
    /\ replenishment_items = <<ItemOf(R_nine), ItemOf(R_low)>>

=============================================================================
